---- MODULE Spec2Model ----
(***************************************************************************)
(* Model of the auto-labeling pipeline: the orchestrator main()            *)
(* (src/src/main.py), the dataset store DataHandler                        *)
(* (src/src/core_logic/data_handler.py), the response validator            *)
(* parse_and_validate (src/src/core_logic/validation.py), the failed-row   *)
(* ledger FailedRowHandler (src/src/core_logic/failed_row_handler.py),     *)
(* the client Automation (src/src/core_logic/browser_automation.py) and    *)
(* the metrics tracker (src/src/core_logic/metrics_tracker.py).            *)
(*                                                                         *)
(* A text is a sequence of lines, a line a sequence of character tokens.   *)
(* A label word is one token (in upper or lower case); " " is whitespace,  *)
(* "-" the dash, every other token an ordinary character.                  *)
(***************************************************************************)
EXTENDS Integers, Sequences, FiniteSets, TLC

\* ---------------------------------------------------------------- bounds
NumRows == 3
MaxBatchSize == 2

\* ------------------------------------------------------ program constants
MAX_RETRIES == 3
max_retries == 3
MinJustificationLen == 3

\* None, and the empty list: both are falsy where the code tests them
None == <<>>
NULL == "NULL"

Min(a, b) == IF a < b THEN a ELSE b

\* ------------------------------------------------------------ characters
UpperWords == {"POSITIF", "NEGATIF"}
LowerWords == {"positif", "negatif"}
MixedWords == {"Positif"}

upper(c) ==
    CASE c = "positif" -> "POSITIF"
      [] c = "negatif" -> "NEGATIF"
      [] c = "Positif" -> "POSITIF"
      [] c = "a" -> "A"
      [] c = "b" -> "B"
      [] c = "c" -> "C"
      [] OTHER -> c

\* number of characters a token stands for
CharLen(c) ==
    IF c \in UpperWords \cup LowerWords \cup MixedWords THEN 7 ELSE 1

RECURSIVE TextLen(_)
TextLen(s) == IF s = <<>> THEN 0 ELSE CharLen(Head(s)) + TextLen(Tail(s))

UpperSeq(s) == [k \in 1..Len(s) |-> upper(s[k])]

RECURSIVE LStrip(_)
LStrip(s) == IF s # <<>> /\ Head(s) = " " THEN LStrip(Tail(s)) ELSE s

RECURSIVE RStrip(_)
RStrip(s) ==
    IF s # <<>> /\ s[Len(s)] = " " THEN RStrip(SubSeq(s, 1, Len(s) - 1)) ELSE s

strip(s) == RStrip(LStrip(s))

\* ------------------------------------------------- args.allowed_labels
allowed_labels_list == <<"POSITIF", "NEGATIF">>

\* =====================================================================
\* parse_and_validate (src/src/core_logic/validation.py)
\* =====================================================================

\* a line that is empty once stripped
IsBlank(line) == strip(line) = <<>>

\* raw_response.strip().split('\n'): leading and trailing blank lines go,
\* the lines in between are kept as they are
RECURSIVE DropLeadingBlank(_)
DropLeadingBlank(ls) ==
    IF ls # <<>> /\ IsBlank(Head(ls)) THEN DropLeadingBlank(Tail(ls)) ELSE ls

RECURSIVE DropTrailingBlank(_)
DropTrailingBlank(ls) ==
    IF ls # <<>> /\ IsBlank(ls[Len(ls)])
    THEN DropTrailingBlank(SubSeq(ls, 1, Len(ls) - 1))
    ELSE ls

SplitLines(raw) ==
    LET body == DropTrailingBlank(DropLeadingBlank(raw))
    IN  IF body = <<>> THEN << <<>> >> ELSE body

\* the test "raw_response is None" in the place of "not raw_response"
IsFalsyResponse_NoneOnly(raw) == raw = None

\* "not raw_response": None or the empty string
IsFalsyResponse(raw) == raw = None \/ raw = << <<>> >>

allowed_labels_set(allowed) == {upper(allowed[k]) : k \in 1..Len(allowed)}

\* index of the first token at or after position j that is not whitespace
RECURSIVE SkipSpaces(_, _)
SkipSpaces(line, j) ==
    IF j <= Len(line) /\ line[j] = " " THEN SkipSpaces(line, j + 1) ELSE j

\* the regex compiled without re.IGNORECASE
valid_line_regex_CaseSensitive(line, labelset) ==
    /\ Len(line) >= 1
    /\ line[1] \in labelset
    /\ LET j == SkipSpaces(line, 2)
       IN  /\ j <= Len(line)
           /\ line[j] = "-"
           /\ j < Len(line)

\* valid_line_regex.match(line): ^(L1|L2|...)\s*-\s*.+ , re.IGNORECASE
valid_line_regex(line, labelset) ==
    /\ Len(line) >= 1
    /\ upper(line[1]) \in labelset
    /\ LET j == SkipSpaces(line, 2)
       IN  /\ j <= Len(line)
           /\ line[j] = "-"
           /\ j < Len(line)

\* position of the first " - " in the line, 0 when there is none
RECURSIVE FindSep(_, _)
FindSep(line, p) ==
    IF p + 2 > Len(line) THEN 0
    ELSE IF line[p] = " " /\ line[p + 1] = "-" /\ line[p + 2] = " " THEN p
    ELSE FindSep(line, p + 1)

\* line.split(' - ', 1)
SplitOnce(line) ==
    LET p == FindSep(line, 1)
    IN  IF p = 0 THEN <<line>>
        ELSE <<SubSeq(line, 1, p - 1), SubSeq(line, p + 3, Len(line))>>

\* the body of the first loop comparing the label as it is written
Candidate_KeepCase(line, labelset) ==
    LET parts == SplitOnce(line)
        label == strip(parts[1])
    IN  IF Len(label) = 1 /\ label[1] \in labelset
        THEN IF Len(parts) >= 2
             THEN << [label |-> label[1], justification |-> strip(parts[2])] >>
             ELSE <<>>
        ELSE <<>>

\* the body of the first loop for one matching line: the candidate it
\* appends, or <<>> when the line is ignored
Candidate(line, labelset) ==
    LET parts == SplitOnce(line)
        label == UpperSeq(strip(parts[1]))
    IN  IF Len(label) = 1 /\ label[1] \in labelset
        THEN IF Len(parts) >= 2
             THEN << [label |-> label[1], justification |-> strip(parts[2])] >>
             ELSE <<>>
        ELSE <<>>

\* first loop: collect candidates, stop at expected_count
RECURSIVE ParseLines(_, _, _, _)
ParseLines(lines, parsed, expected_count, labelset) ==
    IF lines = <<>> \/ Len(parsed) >= expected_count THEN parsed
    ELSE LET line == strip(Head(lines))
         IN  IF line = <<>>
             THEN ParseLines(Tail(lines), parsed, expected_count, labelset)
             ELSE IF valid_line_regex(line, labelset)
             THEN ParseLines(Tail(lines), parsed \o Candidate(line, labelset),
                             expected_count, labelset)
             ELSE ParseLines(Tail(lines), parsed, expected_count, labelset)

\* the cleanup loop without its check of the justification's length
KeepCandidate_AnyLength(r, labelset) ==
    /\ r.justification # <<>>
    /\ upper(r.label) \in labelset

\* the three checks of the cleanup loop on one candidate
KeepCandidate(r, labelset) ==
    /\ r.justification # <<>>
    /\ upper(r.label) \in labelset
    /\ TextLen(strip(r.justification)) >= MinJustificationLen

\* second loop: cleanup, stop at expected_count
RECURSIVE CleanResults(_, _, _, _)
CleanResults(parsed, cleaned, expected_count, labelset) ==
    IF parsed = <<>> THEN cleaned
    ELSE IF ~KeepCandidate(Head(parsed), labelset)
    THEN CleanResults(Tail(parsed), cleaned, expected_count, labelset)
    ELSE LET next == Append(cleaned, Head(parsed))
         IN  IF Len(next) >= expected_count THEN next
             ELSE CleanResults(Tail(parsed), next, expected_count, labelset)

\* the count gate letting a short result through
CountGate_AtMost(cleaned, expected_count) == Len(cleaned) <= expected_count

\* the final count gate
CountGate(cleaned, expected_count) == Len(cleaned) = expected_count

NoResponseMsg == "no response"
NoLabelsMsg == "no allowed labels"
CountMismatchMsg == "count mismatch"

parse_and_validate(raw_response, expected_count, allowed_labels) ==
    IF IsFalsyResponse(raw_response)
    THEN [is_valid |-> FALSE, result |-> NoResponseMsg]
    ELSE IF allowed_labels = <<>>
    THEN [is_valid |-> FALSE, result |-> NoLabelsMsg]
    ELSE LET labelset == allowed_labels_set(allowed_labels)
             parsed == ParseLines(SplitLines(raw_response), <<>>,
                                  expected_count, labelset)
             cleaned == CleanResults(parsed, <<>>, expected_count, labelset)
         IN  IF ~CountGate(cleaned, expected_count)
             THEN [is_valid |-> FALSE, result |-> CountMismatchMsg]
             ELSE [is_valid |-> TRUE, result |-> cleaned]

\* =====================================================================
\* DataHandler (src/src/core_logic/data_handler.py)
\* =====================================================================

\* the dataset: row r has full_text r (texts are identified with the row
\* they come from); src is a history field: the text whose validated
\* result was written into the row by this run, 0 when the run wrote none
Rows == 1..NumRows

\* a NaN cell of the justification column; "NaN" is not a character token,
\* so no text equals it
NaN == <<"NaN">>

EmptyRow == [label |-> NULL, justification |-> NaN, src |-> 0]
OldRow == [label |-> "NETRAL", justification |-> <<"o", "l", "d">>, src |-> 0]

full_text(r) == r

\* a blank label taken for a missing one
isnull_OrBlank(row) == row.label \in {NULL, " "}

\* self.df['label'].isnull()
isnull(row) == row.label = NULL

\* self.df[self.df['label'].isnull()].index
RECURSIVE UnprocessedFrom(_, _)
UnprocessedFrom(d, r) ==
    IF r > Len(d) THEN <<>>
    ELSE IF isnull(d[r]) THEN <<r>> \o UnprocessedFrom(d, r + 1)
    ELSE UnprocessedFrom(d, r + 1)

unprocessed_indices(d) == UnprocessedFrom(d, 1)

get_unprocessed_data_count(d) == Len(unprocessed_indices(d))

\* seq[a : b] of Python, a and b counted from 0
Slice(seq, a, b) ==
    IF a >= Len(seq) \/ b <= a THEN <<>> ELSE SubSeq(seq, a + 1, Min(b, Len(seq)))

\* [texts[i:i + batch_size] for i in range(0, len(texts), batch_size)]
RECURSIVE Chunks(_, _)
Chunks(texts, size) ==
    IF texts = <<>> THEN <<>>
    ELSE <<Slice(texts, 0, size)>> \o Chunks(Slice(texts, size, Len(texts)), size)

get_data_batches(d, size) ==
    Chunks([k \in 1..Len(unprocessed_indices(d)) |->
               full_text(unprocessed_indices(d)[k])], size)

\* the rows update_and_save_data writes to
indices_to_update(d, results, start_index) ==
    Slice(unprocessed_indices(d), start_index, start_index + Len(results))

\* the data frame after the write loop of update_and_save_data
update_data(d, results, start_index) ==
    LET idx == indices_to_update(d, results, start_index)
    IN  [r \in 1..Len(d) |->
            IF \E k \in 1..Len(idx) : idx[k] = r
            THEN LET k == CHOOSE j \in 1..Len(idx) : idx[j] = r
                 IN  [label |-> results[k].label,
                      justification |-> results[k].justification,
                      src |-> results[k].src]
            ELSE d[r]]

\* ------------------------------------------------------------- paths
\* a path: its directory, the stem of the file name as a sequence of name
\* parts, and the suffix
FilePath(dir, stem, suffix) == [dir |-> dir, stem |-> stem, suffix |-> suffix]

\* the directories that exist; a path into any other directory names no file
ExistingDirs == {"data", "results"}

\* every path taken for an existing file
is_file_Always(path) == TRUE

\* self.input_filepath.is_file()
is_file(path) == path.dir \in ExistingDirs

\* the output file named like the input file
output_filename_Plain(stem, timestamp) == stem

\* f"{input_filepath.stem}_labeled_{timestamp}"
output_filename(stem, timestamp) == stem \o <<"_labeled_", timestamp>>

\* Path("results") / output_filename, with the suffix of the input
OutputPath(input, timestamp) ==
    FilePath("results", output_filename(input.stem, timestamp), input.suffix)

SupportedSuffixes == {".xlsx", ".csv"}

\* what reading the file in __init__ ends in
load_error(path, readable) ==
    IF ~is_file(path) THEN "FileNotFoundError"
    ELSE IF path.suffix \notin SupportedSuffixes THEN "ValueError"
    ELSE IF ~readable THEN "read error"
    ELSE "no"

HasColumn(d, col) == \A r \in 1..Len(d) : col \in DOMAIN d[r]

\* a created justification column not counted as a change
made_changes_LabelOnly(d) == ~HasColumn(d, "label")

\* _ensure_columns_exist: made_changes
made_changes(d) == ~HasColumn(d, "label") \/ ~HasColumn(d, "justification")

\* _ensure_columns_exist: the data frame with the missing columns created,
\* every value of a created column null
ensure_columns_exist(d) ==
    [r \in 1..Len(d) |->
        [label |-> IF "label" \in DOMAIN d[r] THEN d[r].label ELSE NULL,
         justification |-> IF "justification" \in DOMAIN d[r]
                           THEN d[r].justification ELSE NaN,
         src |-> d[r].src]]

\* =====================================================================
\* Automation (src/src/core_logic/browser_automation.py)
\* =====================================================================

\* what one internal attempt of get_raw_response_for_batch ends in
Outcomes == {"ok", "timeout", "error_text", "no_extract", "exception"}

\* the attempt (1..max_retries) that returns, 0 when none does
RECURSIVE FirstOk(_, _)
FirstOk(outs, a) ==
    IF a > max_retries THEN 0
    ELSE IF outs[a] = "ok" THEN a
    ELSE FirstOk(outs, a + 1)

\* the client handing back whatever is on the page after the last attempt
get_raw_response_for_batch_LastPage(outs, text) == text

\* the value get_raw_response_for_batch returns
get_raw_response_for_batch(outs, text) ==
    IF FirstOk(outs, 1) = 0 THEN None ELSE text

\* the page reloading before every attempt, the first included
reloads_before_Every(a) == 1

\* lines 198-204: how many times attempt a (counted from 0) reloads the page
\* before it sends the prompt
reloads_before(a) == IF a > 0 THEN 1 ELSE 0

\* lines 221-239: the attempt returns when the generation completed and the
\* extracted text is non-empty and without "internal error"
attempt_returns(out) == out = "ok"

\* every attempt of the call ended in the generation timeout
AllTimedOut(outs) == \A a \in 1..max_retries : outs[a] = "timeout"

\* --------------------------------------------- what the model may answer
GoodLine(t) ==
    IF t % 2 = 1 THEN <<"positif", " ", "-", " ", "a", "b", "c">>
    ELSE <<"NEGATIF", " ", "-", " ", "c", "b", "a">>

ShortLine == <<"POSITIF", " ", "-", " ", "a">>

GoodLines(n) == [k \in 1..n |-> GoodLine(k)]

\* the responses to a prompt of n texts: exactly n lines, one line too
\* many, one line too few, a too short justification ahead of n lines
Responses(n) ==
    { GoodLines(n),
      GoodLines(n + 1),
      IF n = 1 THEN << <<>> >> ELSE GoodLines(n - 1),
      <<ShortLine>> \o GoodLines(n) }

\* =====================================================================
\* main (src/src/main.py)
\* =====================================================================
VARIABLES
    pc,                   \* position of main
    batch_size, debug,    \* args
    allowed_labels,       \* the label list handed to parse_and_validate
    input_filepath,       \* args.input_file
    output_filepath,      \* data_handler.output_filepath
    df,                   \* data_handler.df
    disk,                 \* the file at input_filepath
    output_file,          \* the file at output_filepath, <<>> while absent
    data_handler, failed_handler, browser, metrics_tracker,
    failed_rows,          \* failed_handler.failed_rows
    ledger_file,          \* the session's failed-rows file, <<>> while absent
    session,              \* metrics_tracker: session_id set, session_data
    history,              \* the records appended to the metrics history
    csv_export,           \* the rows appended to execution_metrics.csv
    total_rows, batches, i, attempt, raw_response, validation,
    validated_results, total_processed_rows, total_failed_rows, batch_count,
    k,                    \* position in "for text in batch_data"
    client_attempt,       \* attempts begun by get_raw_response_for_batch
    propagating,          \* an exception left the except clause
    h                     \* history of the run, read by the properties only

vars == <<pc, batch_size, debug, allowed_labels, input_filepath,
          output_filepath, df, disk, output_file, data_handler,
          failed_handler, browser, metrics_tracker, failed_rows, ledger_file,
          session, history, csv_export, total_rows, batches, i, attempt,
          raw_response, validation, validated_results, total_processed_rows,
          total_failed_rows, batch_count, k, client_attempt, propagating, h>>

\* the positions inside the try block, and those of the batch loop
LoopPcs == {"batch_head", "attempt", "submit", "validate", "clear",
            "after_retries", "update", "count_update", "record_failed"}
TryPcs == {"start", "mk_failed", "mk_browser", "count", "load_prompt",
           "start_session", "get_batches"} \cup LoopPcs

NoSession == [active |-> FALSE, processed_rows |-> 0, failed_rows |-> 0,
              batch_count |-> 0]

Pending == [is_valid |-> FALSE, result |-> "pending"]

\* per batch of the snapshot: prompts submitted, conversation resets,
\* update_and_save_data calls, how the batch ended
NoBatchHistory == [submits |-> 0, clears |-> 0, updates |-> 0, ended |-> "no",
                   accepted_at |-> 0, visits |-> 0]

InitHistory ==
    [ df0 |-> <<>>,              \* the dataset at run start
      per_batch |-> <<>>,
      close_calls |-> 0, flush_calls |-> 0, snapshot_calls |-> 0,
      close_failed |-> FALSE,    \* closing the browser raised inside close_session
      after_close |-> 0,         \* client calls made after close_session
      interrupted_at |-> "no",   \* where the KeyboardInterrupt arrived
      fatal_at |-> "no",         \* where an Exception was raised
      timed_out |-> FALSE,       \* the last submission ended in timeouts only
      load_error |-> "no",       \* what DataHandler(...) raised
      submitted |-> FALSE,       \* a prompt has been submitted in this run
      reset_since_submit |-> FALSE,  \* clear_chat_history ran after it
      df_at_attempt |-> <<>>, disk_at_attempt |-> <<>>,
      output_at_attempt |-> <<>>,    \* the output file before the last call
      write_ok |-> FALSE,        \* the last save wrote its file
      added |-> <<>>,            \* the rows passed to add_failed_row so far
      rejections |-> {},         \* <<message of the last rejection of an
                                 \*   exhausted batch, reason recorded>>
      added_at_flush |-> <<>>,   \* the same, when save_to_file was called
      flush_ok |-> FALSE,        \* save_to_file wrote the ledger file
      flushed |-> 0,             \* how many of them the last written file covers
      flushed_before |-> 0,      \* the same, before the last save_to_file call
      ledger_before |-> <<>>,    \* the ledger file before that call
      unwritten |-> <<>>,        \* the failures a failed flush left unwritten
      unwritten_before |-> <<>>, \* the same, before the last save_to_file call
      session_starts |-> 0,      \* start_session calls
      end_calls |-> 0,           \* end_session calls
      json_lost |-> FALSE,       \* _save_to_json failed in an end_session
      csv_lost |-> FALSE,        \* _save_to_csv failed in an end_session
      load_saves |-> 0,          \* save_progress calls made by the constructor
      save_failed_at |-> 0,      \* the last batch whose save_progress failed
      snapshot_failed |-> FALSE, \* save_final_results failed
      last_update |-> [results |-> 0, written |-> 0, batch |-> 0],
      loop_completed |-> FALSE,
      client_log |-> <<>> ]      \* one entry per attempt the client began

\* the clock reading the output file is named after
Timestamp == "T1"

\* the input files of a run: a dataset file, a path that names no file, a
\* file with an unsupported suffix
InputPaths ==
    { FilePath(dir, <<"dataset">>, suffix) :
        dir \in {"data", "nowhere"}, suffix \in {".xlsx", ".txt"} }

Init ==
    /\ pc = "start"
    /\ batch_size \in 1..MaxBatchSize
    /\ debug \in BOOLEAN
    /\ allowed_labels = allowed_labels_list
    /\ input_filepath \in InputPaths
    /\ output_filepath = OutputPath(input_filepath, Timestamp)
    /\ df \in [Rows -> {EmptyRow, OldRow}]
    /\ disk = df
    /\ output_file = <<>>
    /\ data_handler = FALSE /\ failed_handler = FALSE
    /\ browser = FALSE /\ metrics_tracker = FALSE
    /\ failed_rows = <<>> /\ ledger_file = <<>>
    /\ session = NoSession /\ history = <<>> /\ csv_export = <<>>
    /\ total_rows = 0 /\ batches = <<>> /\ i = 1 /\ attempt = 0
    /\ raw_response = None /\ validation = Pending
    /\ validated_results = None
    /\ total_processed_rows = 0 /\ total_failed_rows = 0 /\ batch_count = 0
    /\ k = 1 /\ propagating = FALSE /\ client_attempt = 0
    /\ h = [InitHistory EXCEPT !.df0 = df]

args == <<batch_size, debug, allowed_labels, input_filepath, output_filepath>>
files == <<disk, output_file, ledger_file>>
objects == <<data_handler, failed_handler, browser, metrics_tracker>>
metrics == <<session, history, csv_export>>
loop_vars == <<batches, i, attempt, raw_response, validation,
               validated_results, k>>
counters == <<total_rows, total_processed_rows, total_failed_rows,
              batch_count>>

batch_data == batches[i]

\* the progress written to the output file instead of the input file
save_progress_ToOutput(d, saved) ==
    [disk |-> disk,
     output_file |-> IF saved THEN d ELSE output_file]

\* DataHandler.save_progress: the files after the data frame d is written
\* to input_filepath, or after the write failed
save_progress(d, saved) ==
    [disk |-> IF saved THEN d ELSE disk,
     output_file |-> IF saved /\ output_filepath = input_filepath
                     THEN d ELSE output_file]

\* DataHandler.save_final_results: the files after the data frame d is
\* written to output_filepath, or after the write failed
save_final_results(d, saved) ==
    [disk |-> IF saved /\ output_filepath = input_filepath THEN d ELSE disk,
     output_file |-> IF saved THEN d ELSE output_file]

\* a failed write escaping the save
save_raises_Propagates(saved) == ~saved

\* lines 120-121, 131-132: except Exception as e: logging.error(...): the
\* save returns normally whether or not the file was written
save_raises(saved) == FALSE

\* an Exception raised inside the try block at position where
Raise(where) ==
    /\ pc' = "except_exception"
    /\ h' = [h EXCEPT !.fatal_at = where]

\* ExecutionMetricsTracker.update_progress
update_progress(sess, processed, failed, count) ==
    IF ~sess.active THEN sess
    ELSE [sess EXCEPT !.processed_rows = processed, !.failed_rows = failed,
                      !.batch_count = count]

\* ExecutionMetricsTracker.end_session: the history after the call
end_session(sess, hist, status) ==
    IF ~sess.active THEN hist
    ELSE Append(hist, [status |-> status,
                       processed_rows |-> sess.processed_rows,
                       failed_rows |-> sess.failed_rows,
                       batch_count |-> sess.batch_count])

\* the tracker left as it was by end_session
reset_session_Keep(sess) == sess

\* end_session, "Reset session": session_id = None, start_time = None,
\* session_data = {}
reset_session(sess) == NoSession

\* metrics_tracker.end_session(status): the record is appended to the JSON
\* history and to the CSV export, each write failing on its own without
\* raising, and the tracker is reset; nothing happens without a session
EndSession(status) ==
    \E json_ok, csv_ok \in BOOLEAN :
       /\ history' = IF json_ok THEN end_session(session, history, status)
                     ELSE history
       /\ csv_export' = IF csv_ok
                        THEN end_session(session, csv_export, status)
                        ELSE csv_export
       /\ session' = IF session.active THEN reset_session(session)
                     ELSE session
       /\ h' = [h EXCEPT !.end_calls = @ + 1,
                         !.json_lost = @ \/ (session.active /\ ~json_ok),
                         !.csv_lost = @ \/ (session.active /\ ~csv_ok)]

\* line 93: data_handler = DataHandler(input_filepath=args.input_file):
\* the file is read, missing columns are created and then saved at once
NewDataHandler ==
    /\ pc = "start"
    /\ \E readable, saved \in BOOLEAN :
          LET error == load_error(input_filepath, readable)
              loaded == ensure_columns_exist(disk)
              after == save_progress(loaded, saved)
          IN  IF error = "no"
              THEN /\ df' = loaded
                   /\ IF made_changes(disk)
                      THEN /\ disk' = after.disk
                           /\ output_file' = after.output_file
                           /\ h' = [h EXCEPT !.disk_at_attempt = disk,
                                             !.output_at_attempt = output_file,
                                             !.load_saves = @ + 1,
                                             !.write_ok = saved]
                      ELSE /\ UNCHANGED <<disk, output_file>>
                           /\ h' = [h EXCEPT !.disk_at_attempt = disk,
                                             !.output_at_attempt = output_file]
                   /\ data_handler' = TRUE
                   /\ pc' = "mk_failed"
              ELSE /\ pc' = "except_exception"
                   /\ h' = [h EXCEPT !.fatal_at = "start",
                                     !.load_error = error]
                   /\ UNCHANGED <<df, disk, output_file, data_handler>>
    /\ UNCHANGED <<args, client_attempt, ledger_file, failed_handler, browser, metrics_tracker,
                   failed_rows, metrics, loop_vars, counters, propagating>>

\* line 94: failed_handler = FailedRowHandler(...)
NewFailedRowHandler ==
    /\ pc = "mk_failed"
    /\ failed_handler' = TRUE
    /\ pc' = "mk_browser"
    /\ UNCHANGED <<args, client_attempt, df, files, data_handler, browser, metrics_tracker,
                   failed_rows, metrics, loop_vars, counters, propagating, h>>

\* line 95: browser = Automation(...), RuntimeError when no launch works
NewAutomation ==
    /\ pc = "mk_browser"
    /\ \E launched \in BOOLEAN :
          IF launched
          THEN /\ browser' = TRUE
               /\ pc' = "count"
               /\ UNCHANGED h
          ELSE /\ Raise("mk_browser")
               /\ UNCHANGED browser
    /\ UNCHANGED <<args, client_attempt, df, files, data_handler, failed_handler,
                   metrics_tracker, failed_rows, metrics, loop_vars, counters,
                   propagating>>

\* lines 98-110: the tracker, the count, the early return, start_session
CountRows ==
    /\ pc = "count"
    /\ metrics_tracker' = TRUE
    /\ total_rows' = get_unprocessed_data_count(df)
    /\ IF total_rows' = 0
       THEN /\ pc' = "finally"
            /\ UNCHANGED <<session, h>>
       ELSE /\ pc' = "load_prompt"
            /\ session' = [NoSession EXCEPT !.active = TRUE]
            /\ h' = [h EXCEPT !.session_starts = @ + 1]
    /\ UNCHANGED <<args, client_attempt, df, files, data_handler, failed_handler, browser,
                   failed_rows, history, csv_export, loop_vars,
                   total_processed_rows, total_failed_rows, batch_count,
                   propagating>>

\* lines 114-115: prompt_template = load_prompt(...); return when empty
LoadPrompt ==
    /\ pc = "load_prompt"
    /\ \E found \in BOOLEAN :
          pc' = IF found THEN "start_session" ELSE "finally"
    /\ UNCHANGED <<args, client_attempt, df, files, objects, failed_rows, metrics, loop_vars,
                   counters, propagating, h>>

\* lines 117-126: browser.start_session, TimeoutError ends the run
StartSession ==
    /\ pc = "start_session"
    /\ \E outcome \in {"ready", "timeout", "error"} :
          CASE outcome = "ready" ->
                 /\ pc' = "get_batches"
                 /\ UNCHANGED <<metrics, h>>
            [] outcome = "timeout" ->
                 /\ EndSession("failed")
                 /\ pc' = "finally"
            [] outcome = "error" ->
                 /\ Raise("start_session")
                 /\ UNCHANGED metrics
    /\ UNCHANGED <<args, client_attempt, df, files, objects, failed_rows, loop_vars, counters,
                   propagating>>

\* the debug flag left without effect
debug_cut_IgnoreDebug(all, dbg) == all

\* lines 132-134: if args.debug: batches = batches[:1]
debug_cut(all, dbg) == IF dbg THEN Slice(all, 0, 1) ELSE all

\* lines 129-134: the snapshot of batches, cut to one batch in debug mode
GetBatches ==
    /\ pc = "get_batches"
    /\ batches' = debug_cut(get_data_batches(df, batch_size), debug)
    /\ i' = 1
    /\ h' = [h EXCEPT !.per_batch = [b \in 1..Len(batches') |-> NoBatchHistory]]
    /\ pc' = "batch_head"
    /\ UNCHANGED <<args, client_attempt, df, files, objects, failed_rows, metrics, attempt,
                   raw_response, validation, validated_results, k, counters,
                   propagating>>

\* the loop stepping over every other batch
next_batch_Skip(b) == b + 2

\* line 136: enumerate(batches) hands out the batches one after the other
next_batch(b) == b + 1

\* line 136: for i, batch_data in enumerate(batches)
BatchHead ==
    /\ pc = "batch_head"
    /\ IF i <= Len(batches)
       THEN /\ validated_results' = None
            /\ attempt' = 0
            /\ pc' = "attempt"
            /\ h' = [h EXCEPT !.per_batch[i].visits = @ + 1]
       ELSE /\ pc' = "finally"
            /\ h' = [h EXCEPT !.loop_completed = TRUE]
            /\ UNCHANGED <<validated_results, attempt>>
    /\ UNCHANGED <<args, client_attempt, df, files, objects, failed_rows, metrics, batches, i,
                   raw_response, validation, k, counters, propagating>>

\* the retry loop running one attempt too many
RetryAllowed_OffByOne(a) == a <= MAX_RETRIES

\* line 141: for attempt in range(MAX_RETRIES)
RetryAllowed(a) == a < MAX_RETRIES

AttemptHead ==
    /\ pc = "attempt"
    /\ pc' = IF RetryAllowed(attempt) THEN "submit" ELSE "after_retries"
    /\ UNCHANGED <<args, client_attempt, df, files, objects, failed_rows, metrics, loop_vars,
                   counters, propagating, h>>

\* the validated results, each paired with the text of the batch it was
\* validated for (its position in the response is its position in the batch)
Annotate(result, batch) ==
    [j \in 1..Len(result) |->
        [label |-> result[j].label,
         justification |-> result[j].justification,
         src |-> IF j <= Len(batch) THEN batch[j] ELSE 0]]

\* lines 144-145: raw_response = browser.get_raw_response_for_batch(prompt)
Submit ==
    /\ pc = "submit"
    /\ \E outs \in [1..max_retries -> Outcomes],
          text \in Responses(Len(batch_data)) :
          /\ raw_response' = get_raw_response_for_batch(outs, text)
          /\ h' = [h EXCEPT !.per_batch[i].submits = @ + 1,
                            !.after_close = @ + (IF h.close_calls > 0 THEN 1 ELSE 0),
                            !.timed_out = AllTimedOut(outs),
                            !.submitted = TRUE,
                            !.reset_since_submit = FALSE,
                            !.df_at_attempt = df,
                            !.disk_at_attempt = disk]
    /\ validation' = Pending
    /\ pc' = "validate"
    /\ UNCHANGED <<args, client_attempt, df, files, objects, failed_rows, metrics, batches, i,
                   attempt, validated_results, k, counters, propagating>>

\* lines 146-166: validate, write the check-data file, break or retry
Validate ==
    /\ pc = "validate"
    /\ LET checked == parse_and_validate(raw_response, Len(batch_data),
                                         allowed_labels)
       IN  /\ validation' = checked
           /\ \E written \in BOOLEAN :
                 IF ~written
                 THEN /\ Raise("validate")
                      /\ UNCHANGED validated_results
                 ELSE IF checked.is_valid
                 THEN /\ validated_results' = Annotate(checked.result,
                                                       batch_data)
                      /\ h' = [h EXCEPT !.per_batch[i].accepted_at = attempt + 1]
                      /\ pc' = "after_retries"
                 ELSE /\ pc' = "clear"
                      /\ UNCHANGED <<validated_results, h>>
    /\ UNCHANGED <<args, client_attempt, df, files, objects, failed_rows, metrics, batches, i,
                   attempt, raw_response, k, counters, propagating>>

\* lines 165-166: browser.clear_chat_history(); time.sleep(5)
ClearChatHistory ==
    /\ pc = "clear"
    /\ \E reset \in BOOLEAN :
          IF reset
          THEN /\ attempt' = attempt + 1
               /\ pc' = "attempt"
               /\ h' = [h EXCEPT !.per_batch[i].clears = @ + 1,
                                 !.reset_since_submit = TRUE,
                                 !.after_close = @ + (IF h.close_calls > 0 THEN 1 ELSE 0)]
          ELSE /\ Raise("clear")
               /\ UNCHANGED attempt
    /\ UNCHANGED <<args, client_attempt, df, files, objects, failed_rows, metrics, batches, i,
                   raw_response, validation, validated_results, k, counters,
                   propagating>>

\* line 169: if validated_results
AfterRetries ==
    /\ pc = "after_retries"
    /\ IF validated_results # <<>>
       THEN pc' = "update" /\ UNCHANGED k
       ELSE pc' = "record_failed" /\ k' = 1
    /\ UNCHANGED <<args, client_attempt, df, files, objects, failed_rows, metrics, batches, i,
                   attempt, raw_response, validation, validated_results,
                   counters, propagating, h>>

\* line 170: data_handler.update_and_save_data(validated_results,
\*                                start_index=total_processed_rows)
update_and_save_data ==
    /\ pc = "update"
    /\ df' = update_data(df, validated_results, total_processed_rows)
    /\ \E saved \in BOOLEAN :
          /\ disk' = save_progress(df', saved).disk
          /\ output_file' = save_progress(df', saved).output_file
          /\ pc' = IF save_raises(saved) THEN "except_exception"
                   ELSE "count_update"
          /\ h' = [h EXCEPT !.per_batch[i].updates = @ + 1,
                            !.last_update =
                                [results |-> Len(validated_results),
                                 written |-> Len(indices_to_update(df,
                                                  validated_results,
                                                  total_processed_rows)),
                                 batch |-> i],
                            !.save_failed_at = IF saved THEN @ ELSE i,
                            !.fatal_at = IF save_raises(saved) THEN "update"
                                         ELSE @]
    /\ UNCHANGED <<args, client_attempt, ledger_file, objects, failed_rows,
                   metrics, loop_vars, counters, propagating>>

\* lines 171-181: the counters and the metrics after an applied batch
CountUpdate ==
    /\ pc = "count_update"
    /\ total_processed_rows' = total_processed_rows + Len(validated_results)
    /\ batch_count' = batch_count + 1
    /\ session' = update_progress(session, total_processed_rows',
                                  total_failed_rows, batch_count')
    /\ h' = [h EXCEPT !.per_batch[i].ended = "accepted"]
    /\ i' = next_batch(i)
    /\ pc' = "batch_head"
    /\ UNCHANGED <<args, client_attempt, df, files, objects, failed_rows, history,
                   csv_export, total_rows, total_failed_rows, batches,
                   attempt, raw_response,
                   validation, validated_results, k, propagating>>

\* FailedRowHandler.add_failed_row
add_failed_row(rows, original_text, invalid_label, justification, reason) ==
    Append(rows, [full_text |-> original_text, invalid_label |-> invalid_label,
                  justification |-> justification, failure_reason |-> reason])

FailureReason == "Failed validation after 3 attempts."

\* lines 184-189: one turn of "for text in batch_data"
AddFailedRow ==
    /\ pc = "record_failed"
    /\ k <= Len(batch_data)
    /\ failed_rows' = add_failed_row(failed_rows, batch_data[k], "N/A", "N/A",
                                     FailureReason)
    /\ total_failed_rows' = total_failed_rows + 1
    /\ k' = k + 1
    /\ h' = [h EXCEPT !.added = Append(@, failed_rows'[Len(failed_rows')]),
                      !.rejections = @ \cup {<<validation.result,
                                                FailureReason>>}]
    /\ UNCHANGED <<pc, args, client_attempt, df, files, objects, metrics, total_rows,
                   total_processed_rows, batch_count, batches, i, attempt,
                   raw_response, validation, validated_results, propagating>>

\* lines 192-197: the metrics after a failed batch, then the next batch
FailedBatchDone ==
    /\ pc = "record_failed"
    /\ k > Len(batch_data)
    /\ session' = update_progress(session, total_processed_rows,
                                  total_failed_rows, batch_count)
    /\ h' = [h EXCEPT !.per_batch[i].ended = "exhausted"]
    /\ i' = next_batch(i)
    /\ pc' = "batch_head"
    /\ UNCHANGED <<args, client_attempt, df, files, objects, failed_rows, history,
                   csv_export, counters, batches, attempt, raw_response,
                   validation,
                   validated_results, k, propagating>>

\* a KeyboardInterrupt arrives while main is inside the try block
Interrupt ==
    /\ pc \in TryPcs
    /\ pc' = "except_kbd"
    /\ h' = [h EXCEPT !.interrupted_at = pc]
    /\ UNCHANGED <<args, client_attempt, df, files, objects, failed_rows, metrics, loop_vars,
                   counters, propagating>>

\* lines 199-204: except KeyboardInterrupt
ExceptKeyboardInterrupt ==
    /\ pc = "except_kbd"
    /\ IF metrics_tracker
       THEN EndSession("interrupted")
       ELSE UNCHANGED <<metrics, h>>
    /\ pc' = "finally"
    /\ UNCHANGED <<args, client_attempt, df, files, objects, failed_rows, loop_vars, counters,
                   propagating>>

\* lines 205-211: except Exception; the screenshot itself may raise, and
\* then the rest of the clause is skipped
ExceptException ==
    /\ pc = "except_exception"
    /\ \E shot \in BOOLEAN :
          IF browser /\ ~shot
          THEN /\ propagating' = TRUE
               /\ UNCHANGED <<metrics, h>>
          ELSE /\ IF metrics_tracker
                  THEN EndSession("failed")
                  ELSE UNCHANGED <<metrics, h>>
               /\ UNCHANGED propagating
    /\ pc' = "finally"
    /\ UNCHANGED <<args, client_attempt, df, files, objects, failed_rows, loop_vars, counters>>

\* close_session left out of the interrupt path
close_guard_NotOnInterrupt == browser /\ h.interrupted_at = "no"

\* lines 216-217: if browser: browser.close_session()
close_guard == browser

\* an error of closing the browser escaping close_session
close_raises_Propagates(closed) == ~closed

\* browser_automation.py 391-398: except Exception: logging.warning(...), a
\* second playwright.stop() under a bare except: close_session returns
\* normally whether or not the browser closed
close_raises(closed) == FALSE

FinallyClose ==
    /\ pc = "finally"
    /\ IF close_guard
       THEN \E closed \in BOOLEAN :
               /\ h' = [h EXCEPT !.close_calls = @ + 1,
                                 !.close_failed = ~closed]
               /\ IF close_raises(closed)
                  THEN pc' = "done" /\ propagating' = TRUE
                  ELSE pc' = "fin_flush" /\ UNCHANGED propagating
       ELSE /\ pc' = "fin_flush"
            /\ UNCHANGED <<h, propagating>>
    /\ UNCHANGED <<args, client_attempt, df, files, objects, failed_rows, metrics, loop_vars,
                   counters>>

\* the ledger file appended to
save_to_file_Append(rows, file, written) ==
    IF rows = <<>> THEN [failed_rows |-> rows, file |-> file]
    ELSE IF written THEN [failed_rows |-> <<>>, file |-> file \o rows]
    ELSE [failed_rows |-> rows, file |-> file]

\* the list emptied whether or not the file was written
save_to_file_AlwaysClears(rows, file, written) ==
    IF rows = <<>> THEN [failed_rows |-> rows, file |-> file]
    ELSE IF written THEN [failed_rows |-> <<>>, file |-> rows]
    ELSE [failed_rows |-> <<>>, file |-> file]

\* FailedRowHandler.save_to_file: the list and the file after the call
save_to_file(rows, file, written) ==
    IF rows = <<>> THEN [failed_rows |-> rows, file |-> file]
    ELSE IF written THEN [failed_rows |-> <<>>, file |-> rows]
    ELSE [failed_rows |-> rows, file |-> file]

\* what the write of save_to_file can end in: with nothing pending the call
\* returns before it writes, and nothing can fail
WriteOutcomes(rows) == IF rows = <<>> THEN {TRUE} ELSE BOOLEAN

\* the history of the run after a save_to_file call
FlushHistory(written) ==
    [h EXCEPT !.flush_calls = @ + 1,
              !.added_at_flush = h.added,
              !.flush_ok = written,
              !.flushed = IF written /\ failed_rows # <<>>
                          THEN Len(h.added) ELSE @,
              !.flushed_before = h.flushed,
              !.ledger_before = ledger_file,
              !.unwritten = IF written THEN <<>>
                            ELSE SubSeq(h.added, h.flushed + 1, Len(h.added)),
              !.unwritten_before = h.unwritten]

\* the flush made only when failures are pending
flush_guard_OnlyIfPending == failed_handler /\ failed_rows # <<>>

\* lines 218-219: if failed_handler: failed_handler.save_to_file()
flush_guard == failed_handler

FinallyFlush ==
    /\ pc = "fin_flush"
    /\ IF flush_guard
       THEN \E written \in WriteOutcomes(failed_rows) :
               LET r == save_to_file(failed_rows, ledger_file, written)
               IN  /\ failed_rows' = r.failed_rows
                   /\ ledger_file' = r.file
                   /\ h' = FlushHistory(written)
       ELSE UNCHANGED <<failed_rows, ledger_file, h>>
    /\ pc' = "fin_snapshot"
    /\ UNCHANGED <<args, client_attempt, df, disk, output_file, objects, metrics, loop_vars,
                   counters, propagating>>

\* the snapshot written whatever the counter says
snapshot_guard_Unconditional == data_handler

\* lines 220-221: if data_handler and total_processed_rows > 0
snapshot_guard == data_handler /\ total_processed_rows > 0

FinallySnapshot ==
    /\ pc = "fin_snapshot"
    /\ IF snapshot_guard
       THEN \E saved \in BOOLEAN :
               /\ output_file' = save_final_results(df, saved).output_file
               /\ disk' = save_final_results(df, saved).disk
               /\ h' = [h EXCEPT !.snapshot_calls = @ + 1,
                                 !.snapshot_failed = ~saved]
               /\ IF save_raises(saved)
                  THEN pc' = "done" /\ propagating' = TRUE
                  ELSE pc' = "fin_metrics" /\ UNCHANGED propagating
       ELSE /\ pc' = "fin_metrics"
            /\ UNCHANGED <<output_file, disk, h, propagating>>
    /\ UNCHANGED <<args, client_attempt, df, ledger_file, objects, failed_rows, metrics,
                   loop_vars, counters>>

\* lines 224-231: end the metrics session when it is still active
FinallyMetrics ==
    /\ pc = "fin_metrics"
    /\ IF metrics_tracker /\ session.active
       THEN EndSession("completed")
       ELSE UNCHANGED <<metrics, h>>
    /\ pc' = "done"
    /\ UNCHANGED <<args, client_attempt, df, files, objects, failed_rows, loop_vars, counters,
                   propagating>>

Next ==
    \/ NewDataHandler
    \/ NewFailedRowHandler
    \/ NewAutomation
    \/ CountRows
    \/ LoadPrompt
    \/ StartSession
    \/ GetBatches
    \/ BatchHead
    \/ AttemptHead
    \/ Submit
    \/ Validate
    \/ ClearChatHistory
    \/ AfterRetries
    \/ update_and_save_data
    \/ CountUpdate
    \/ AddFailedRow
    \/ FailedBatchDone
    \/ Interrupt
    \/ ExceptKeyboardInterrupt
    \/ ExceptException
    \/ FinallyClose
    \/ FinallyFlush
    \/ FinallySnapshot
    \/ FinallyMetrics

Spec == Init /\ [][Next]_vars

\* =====================================================================
\* Properties
\* =====================================================================

\* every failure recorded by the run: flushed to the file or still pending
Recorded == ledger_file \o failed_rows

\* how often text t is recorded
TimesRecorded(t) ==
    Cardinality({j \in 1..Len(Recorded) : Recorded[j].full_text = t})

\* the rows the run has written a result into
LabeledByRun == {r \in Rows : df[r].src # 0}

\* the rows that were unprocessed when the run started
UnprocessedAtStart == {r \in Rows : isnull(h.df0[r])}

BatchIds == 1..Len(h.per_batch)

TextsOf(b) == {batches[b][j] : j \in 1..Len(batches[b])}

FinalPcs == {"finally", "fin_flush", "fin_snapshot", "fin_metrics", "done"}

\* C1: every row labeled during the run carries the result that was
\* validated for its own text (the i-th result of an accepted batch goes to
\* the row of the i-th text of that batch).
C1_PositionalAlignment ==
    \A r \in Rows : df[r].src # 0 => df[r].src = full_text(r)

\* C2: after a run whose batch loop went through every batch (no debug
\* flag, no interrupt, no fatal error), rows labeled by the run plus rows
\* recorded in the ledger equal the rows unprocessed at start, and each such
\* row is labeled or recorded.
C2_Conservation ==
    (pc = "done" /\ h.loop_completed /\ ~debug)
        => /\ Cardinality(LabeledByRun) + Len(Recorded)
                 = Cardinality(UnprocessedAtStart)
           /\ \A r \in UnprocessedAtStart :
                 r \in LabeledByRun \/ TimesRecorded(full_text(r)) > 0

\* C3: a rejected attempt (malformed text, wrong count, None response)
\* leaves the dataset in memory and on disk as they were when the attempt
\* began; update_and_save_data runs only after an accepted validation and
\* only with as many results as the batch has texts.
C3_AllOrNothingPerAttempt ==
    /\ (pc \in LoopPcs /\ ~validation.is_valid /\ validation.result # "pending")
          => df = h.df_at_attempt /\ disk = h.disk_at_attempt
    /\ pc = "update"
          => /\ validation.is_valid
             /\ Len(validated_results) = Len(batch_data)
    /\ \A b \in BatchIds :
          h.per_batch[b].updates > 0 => h.per_batch[b].accepted_at > 0
    /\ h.last_update.batch > 0
          => h.last_update.results = Len(batches[h.last_update.batch])

C3_Witness ==
    /\ pc = "count_update"
    /\ h.per_batch[i].clears > 0
    /\ h.per_batch[i].updates = 1

\* C4: every update_and_save_data call of the run writes label and
\* justification to exactly len(results) rows, never to fewer.
C4_NoPartialWrite ==
    h.last_update.batch > 0 => h.last_update.written = h.last_update.results

\* C5: a batch rejected on MAX_RETRIES consecutive attempts is submitted
\* MAX_RETRIES times and never accepted, update_and_save_data is never called
\* for it, every one of its texts is recorded exactly once in the ledger, and
\* the orchestrator moves on to the next batch.
C5_RetryExhaustion ==
    \A b \in BatchIds :
        /\ h.per_batch[b].clears = MAX_RETRIES
              => /\ h.per_batch[b].submits = MAX_RETRIES
                 /\ h.per_batch[b].accepted_at = 0
                 /\ h.per_batch[b].updates = 0
                 /\ \A t \in TextsOf(b) : TimesRecorded(t) <= 1
                 /\ (pc = "batch_head" /\ i > b)
                       => h.per_batch[b].ended = "exhausted"
        /\ h.per_batch[b].ended = "exhausted"
              => /\ h.per_batch[b].clears = MAX_RETRIES
                 /\ i > b
                 /\ \A t \in TextsOf(b) : TimesRecorded(t) = 1

C5_Witness ==
    /\ pc = "attempt"
    /\ i = 2
    /\ h.per_batch[1].ended = "exhausted"
    /\ Len(batches[1]) = 2

\* C6: every row recorded in the ledger during the run still has a null
\* label when the run ends; no row is both recorded as failed and labeled.
C6_FailedRowsStayUnprocessed ==
    pc = "done" => \A j \in 1..Len(Recorded) : isnull(df[Recorded[j].full_text])

\* C7: a batch is submitted at most MAX_RETRIES times; when its k-th
\* attempt is the first accepted one, exactly k submissions are made for
\* it, update_and_save_data is called exactly once for it, and none of its
\* rows is recorded in the ledger.
C7_BoundedRetry ==
    \A b \in BatchIds :
        /\ h.per_batch[b].submits <= MAX_RETRIES
        /\ h.per_batch[b].accepted_at > 0
              => /\ h.per_batch[b].submits = h.per_batch[b].accepted_at
                 /\ h.per_batch[b].clears = h.per_batch[b].accepted_at - 1
                 /\ h.per_batch[b].updates <= 1
                 /\ \A t \in TextsOf(b) : TimesRecorded(t) = 0
                 /\ (i > b \/ (i = b /\ pc = "count_update"))
                       => h.per_batch[b].updates = 1
                 /\ i > b => h.per_batch[b].ended = "accepted"

C7_Witness ==
    /\ pc = "batch_head"
    /\ i = 2
    /\ h.per_batch[1].accepted_at = 2
    /\ h.per_batch[1].submits = 2
    /\ h.per_batch[1].updates = 1

C9_SessionAlwaysClosed ==
    /\ h.close_calls <= 1
    /\ h.after_close = 0
    /\ h.close_calls = 1 => pc \in FinalPcs \ {"finally"}
    /\ (pc \in FinalPcs \ {"finally"} /\ browser) => h.close_calls = 1

C9_Witness ==
    /\ pc = "done"
    /\ browser
    /\ h.fatal_at = "clear"
    /\ propagating
    /\ h.close_calls = 1

C11_ResetBetweenSubmissions ==
    (pc = "submit" /\ h.submitted) => h.reset_since_submit

\* =====================================================================
\* parse_and_validate called on its own
\* =====================================================================
MaxLines == 3
MaxExpected == 2

\* the lines a response is made of: label lines in upper, lower and mixed
\* case, with a justification of three characters, of two, with a dash
\* inside and with none; the dash with one space on each side, with more,
\* with none; leading whitespace; blank lines and a line without a label
ResponseLines ==
    { <<"POSITIF", " ", "-", " ", "a", "b", "c">>,
      <<"negatif", " ", "-", " ", "c", "b", "a">>,
      <<"Positif", " ", "-", " ", "b", "c", "a">>,
      <<" ", "NEGATIF", " ", "-", " ", "a", "b", "c">>,
      <<"POSITIF", " ", "-", " ", "o", "k">>,
      <<"NEGATIF", "-", "a", "b", "c">>,
      <<"POSITIF", "-", " ", "a", "b", "c">>,
      <<"NEGATIF", " ", " ", "-", " ", " ", "a", "b", "c">>,
      <<"POSITIF", " ", "-", " ", "a", " ", "-", " ", "b">>,
      <<"NEGATIF", " ", "-", " ">>,
      <<"a", "b", "c">>,
      <<" ">>,
      <<>> }

\* None, and every text of 1..MaxLines lines
RawResponses ==
    {None} \cup UNION { [1..n -> ResponseLines] : n \in 1..MaxLines }

\* the label lists: none, the one main passes, one in lower case
LabelLists == { <<>>, allowed_labels_list, <<"positif">> }

\* expected_count=len(batch_data)
expected_count == Len(batch_data)

\* what the call leaves alone: the run has not started
MainIdle ==
    /\ debug = FALSE
    /\ data_handler = FALSE /\ failed_handler = FALSE
    /\ browser = FALSE /\ metrics_tracker = FALSE
    /\ failed_rows = <<>> /\ ledger_file = <<>>
    /\ session = NoSession /\ history = <<>> /\ csv_export = <<>>
    /\ attempt = 0
    /\ total_failed_rows = 0 /\ batch_count = 0
    /\ k = 1 /\ propagating = FALSE /\ client_attempt = 0
    /\ h = InitHistory

ValidatorInit ==
    /\ pc = "call"
    /\ raw_response \in RawResponses
    /\ allowed_labels \in LabelLists
    /\ batches \in { << [j \in 1..n |-> j] >> : n \in 0..MaxExpected }
    /\ i = 1
    /\ validation = Pending
    /\ df = [r \in Rows |-> EmptyRow]
    /\ disk = df
    /\ total_rows = 0 /\ total_processed_rows = 0
    /\ validated_results = None
    /\ batch_size = 1
    /\ input_filepath = FilePath("data", <<"dataset">>, ".xlsx")
    /\ output_filepath = OutputPath(input_filepath, Timestamp)
    /\ output_file = <<>>
    /\ MainIdle

\* is_valid, result = parse_and_validate(raw_response, expected_count,
\* allowed_labels)
CallParseAndValidate ==
    /\ pc = "call"
    /\ validation' = parse_and_validate(raw_response, expected_count,
                                        allowed_labels)
    /\ pc' = "returned"
    /\ UNCHANGED <<args, client_attempt, df, files, objects, failed_rows, metrics, batches, i,
                   attempt, raw_response, validated_results, k, counters,
                   propagating, h>>

ValidatorNext == CallParseAndValidate

ValidatorSpec == ValidatorInit /\ [][ValidatorNext]_vars

\* ----------------------------------------- the grammar, line by line
\* the line matches ^<LABEL>\s*-\s*.+ once stripped, whatever the
\* whitespace around the dash
MatchesGrammar(line, labelset) == valid_line_regex(strip(line), labelset)

\* the entry of a matching line: the label in upper case and the trimmed
\* remainder after the dash
GrammarEntry(line) ==
    LET l == strip(line)
        j == SkipSpaces(l, 2)
    IN  [label |-> upper(l[1]),
         justification |-> strip(SubSeq(l, j + 1, Len(l)))]

\* the entries of the matching lines of a response, in line order
RECURSIVE GrammarEntries(_, _)
GrammarEntries(lines, labelset) ==
    IF lines = <<>> THEN <<>>
    ELSE (IF MatchesGrammar(Head(lines), labelset)
          THEN <<GrammarEntry(Head(lines))>> ELSE <<>>)
         \o GrammarEntries(Tail(lines), labelset)

\* a line of the form <LABEL> - <justification>: one space on each side
\* of the dash
IsLabelDashLine(line, labelset) ==
    /\ MatchesGrammar(line, labelset)
    /\ LET l == strip(line)
       IN  /\ Len(l) >= 5
           /\ l[2] = " " /\ l[3] = "-" /\ l[4] = " " /\ l[5] # " "

LongEnough(e) == TextLen(e.justification) >= MinJustificationLen

\* a line <LABEL> - <justification> with a justification of at least three
\* characters
PlainValid(line, labelset) ==
    IsLabelDashLine(line, labelset) /\ LongEnough(GrammarEntry(line))

RECURSIVE PlainValidLines(_, _)
PlainValidLines(lines, labelset) ==
    IF lines = <<>> THEN <<>>
    ELSE (IF PlainValid(Head(lines), labelset) THEN <<Head(lines)>> ELSE <<>>)
         \o PlainValidLines(Tail(lines), labelset)

\* a well-formed line: it matches the grammar with an allowed label and its
\* justification has at least three characters
WellFormed(line, labelset) ==
    MatchesGrammar(line, labelset) /\ LongEnough(GrammarEntry(line))

\* the well-formed lines of a response, in line order
RECURSIVE WellFormedLines(_, _)
WellFormedLines(lines, labelset) ==
    IF lines = <<>> THEN <<>>
    ELSE (IF WellFormed(Head(lines), labelset) THEN <<Head(lines)>> ELSE <<>>)
         \o WellFormedLines(Tail(lines), labelset)

EntriesOf(lines) == [n \in 1..Len(lines) |-> GrammarEntry(lines[n])]

FirstN(seq, n) == SubSeq(seq, 1, Min(n, Len(seq)))

\* sub is seq with some elements left out
RECURSIVE IsSubseq(_, _)
IsSubseq(sub, seq) ==
    IF sub = <<>> THEN TRUE
    ELSE IF seq = <<>> THEN FALSE
    ELSE IF Head(sub) = Head(seq) THEN IsSubseq(Tail(sub), Tail(seq))
    ELSE IsSubseq(sub, Tail(seq))

\* the call returned after parsing: a response and labels were given
Parsed ==
    /\ pc = "returned"
    /\ ~IsFalsyResponse(raw_response)
    /\ allowed_labels # <<>>

Accepted == pc = "returned" /\ validation.is_valid

\* =====================================================================
\* DataHandler called on its own
\* =====================================================================

\* rows as a dataset file can hold them: a label of whitespace only, a
\* label without a justification
BlankRow == [label |-> " ", justification |-> NaN, src |-> 0]
HalfRow == [label |-> "POSITIF", justification |-> NaN, src |-> 0]

\* an entry of a validated result
NewResult == [label |-> "NEGATIF", justification |-> <<"n", "e", "w">>,
              src |-> 0]

\* the positions of a caller that holds a constructed DataHandler
HandlerPcs == {"mk_failed", "loaded", "counted", "batched", "updated",
               "saved", "snapshot"}

DataInit ==
    /\ pc = "loaded"
    /\ df \in [Rows -> {EmptyRow, OldRow, BlankRow, HalfRow}]
    /\ disk = df
    /\ batch_size \in 1..MaxBatchSize
    /\ allowed_labels = allowed_labels_list
    /\ input_filepath = FilePath("data", <<"dataset">>, ".xlsx")
    /\ output_filepath = OutputPath(input_filepath, Timestamp)
    /\ total_rows = 0 /\ batches = <<>> /\ i = 1
    /\ validated_results = None /\ total_processed_rows = 0
    /\ raw_response = None /\ validation = Pending
    /\ debug = FALSE
    /\ output_file = <<>>
    /\ data_handler = TRUE /\ failed_handler = FALSE
    /\ browser = FALSE /\ metrics_tracker = FALSE
    /\ failed_rows = <<>> /\ ledger_file = <<>>
    /\ session = NoSession /\ history = <<>> /\ csv_export = <<>>
    /\ attempt = 0
    /\ total_failed_rows = 0 /\ batch_count = 0
    /\ k = 1 /\ propagating = FALSE /\ client_attempt = 0
    /\ h = [InitHistory EXCEPT !.df0 = df]

\* data_handler.get_unprocessed_data_count()
CallGetUnprocessedDataCount ==
    /\ pc \in HandlerPcs
    /\ total_rows' = get_unprocessed_data_count(df)
    /\ pc' = "counted"
    /\ UNCHANGED <<args, client_attempt, df, files, objects, failed_rows, metrics, loop_vars,
                   total_processed_rows, total_failed_rows, batch_count,
                   propagating, h>>

\* data_handler.get_data_batches(batch_size)
CallGetDataBatches ==
    /\ pc \in HandlerPcs
    /\ batches' = get_data_batches(df, batch_size)
    /\ pc' = "batched"
    /\ UNCHANGED <<args, client_attempt, df, files, objects, failed_rows, metrics, i, attempt,
                   raw_response, validation, validated_results, k, counters,
                   propagating, h>>

\* data_handler.update_and_save_data(results, start_index); the history
\* keeps the dataset as it was before the call
CallUpdateAndSaveData ==
    /\ pc \in HandlerPcs
    /\ \E n \in 1..MaxBatchSize, start_index \in 0..1 :
          /\ validated_results' = [j \in 1..n |-> NewResult]
          /\ total_processed_rows' = start_index
          /\ df' = update_data(df, validated_results', start_index)
          /\ h' = [h EXCEPT !.df_at_attempt = df,
                            !.disk_at_attempt = disk,
                            !.output_at_attempt = output_file,
                            !.last_update =
                                [results |-> n,
                                 written |-> Len(indices_to_update(df,
                                                 validated_results',
                                                 start_index)),
                                 batch |-> 0]]
    /\ \E saved \in BOOLEAN :
          /\ disk' = save_progress(df', saved).disk
          /\ output_file' = save_progress(df', saved).output_file
    /\ pc' = "updated"
    /\ UNCHANGED <<args, client_attempt, ledger_file, objects, failed_rows,
                   metrics, batches, i, attempt, raw_response, validation, k,
                   total_rows, total_failed_rows, batch_count, propagating>>

DataNext ==
    \/ CallGetUnprocessedDataCount
    \/ CallGetDataBatches
    \/ CallUpdateAndSaveData

DataSpec == DataInit /\ [][DataNext]_vars

\* ------------------------------------------------ unprocessed rows
\* a cell that is null, empty or whitespace only
EmptyLabel(l) == l \in {NULL, "", " "}
EmptyJustification(j) == j = NaN \/ strip(j) = <<>>

\* the rows with an empty label or an empty justification
EmptyRows(d) ==
    { r \in 1..Len(d) :
        EmptyLabel(d[r].label) \/ EmptyJustification(d[r].justification) }

\* the rows of a set, in dataset order
RECURSIVE InOrder(_, _)
InOrder(S, r) ==
    IF r > NumRows THEN <<>>
    ELSE (IF r \in S THEN <<r>> ELSE <<>>) \o InOrder(S, r + 1)

TextsOfRows(S) ==
    LET rs == InOrder(S, 1) IN [n \in 1..Len(rs) |-> full_text(rs[n])]

RECURSIVE Flatten(_)
Flatten(bs) == IF bs = <<>> THEN <<>> ELSE Head(bs) \o Flatten(Tail(bs))

\* the rows the last update_and_save_data call wrote to
WrittenRows == { r \in Rows : df[r] # h.df_at_attempt[r] }

\* C12: get_unprocessed_data_count counts, get_data_batches batches and
\* update_and_save_data writes to exactly the rows whose label is null,
\* empty or whitespace only or whose justification is null, empty or
\* whitespace only: a row with label " " and a row with a label but a null
\* justification are handled like a row with a null label.
C12_UnprocessedDefinition ==
    /\ pc = "counted" => total_rows = Cardinality(EmptyRows(df))
    /\ pc = "batched" => Flatten(batches) = TextsOfRows(EmptyRows(df))
    /\ pc = "updated" =>
          LET before == InOrder(EmptyRows(h.df_at_attempt), 1)
              target == Slice(before, total_processed_rows,
                              total_processed_rows + Len(validated_results))
          IN  WrittenRows = { target[n] : n \in 1..Len(target) }

\* C13: whenever parse_and_validate returns valid, the result has exactly
\* expected_count entries, every label is the upper-case form of a member
\* of allowed_labels, every justification has at least 3 characters after
\* trimming, and the entries come in the order of their lines.
C13_ValidatorSoundness ==
    Accepted =>
        /\ Len(validation.result) = expected_count
        /\ \A n \in 1..Len(validation.result) :
              /\ validation.result[n].label
                    \in { upper(allowed_labels[j]) : j \in 1..Len(allowed_labels) }
              /\ TextLen(strip(validation.result[n].justification)) >= 3
        /\ IsSubseq(validation.result,
                    GrammarEntries(raw_response,
                                   allowed_labels_set(allowed_labels)))

\* accepted with two entries although an earlier matching line was left out
C13_Witness ==
    /\ Accepted
    /\ expected_count = 2
    /\ LET entries == GrammarEntries(raw_response,
                                     allowed_labels_set(allowed_labels))
       IN  /\ Len(entries) = 3
           /\ validation.result = Tail(entries)

\* the response is exactly expected_count lines <LABEL> - <justification>
\* with allowed labels
ExactCountResponse ==
    /\ Parsed
    /\ Len(raw_response) = expected_count
    /\ \A n \in 1..Len(raw_response) :
          IsLabelDashLine(raw_response[n], allowed_labels_set(allowed_labels))

\* C14 as stated: a response of exactly expected_count lines of the form
\* <LABEL> - <justification> with allowed labels is accepted with those
\* (label, justification) pairs in order, whatever the justifications are
\* ("POSITIF - ok" included).
C14_ExactCountAcceptance ==
    ExactCountResponse =>
        validation = [is_valid |-> TRUE, result |-> EntriesOf(raw_response)]

\* C14, amended: a response of exactly expected_count lines of the form
\* <LABEL> - <justification> with allowed labels and justifications of at
\* least 3 characters after trimming is accepted with those (label,
\* justification) pairs in order, the labels in upper case.
C14_ExactCountAcceptanceMinLen ==
    ( /\ ExactCountResponse
      /\ \A n \in 1..Len(raw_response) :
            LongEnough(GrammarEntry(raw_response[n])) ) =>
        validation = [is_valid |-> TRUE, result |-> EntriesOf(raw_response)]

\* two different lines with long enough justifications, both accepted
C14_Witness ==
    /\ ExactCountResponse
    /\ expected_count = 2
    /\ raw_response[1] # raw_response[2]
    /\ \A n \in 1..2 : LongEnough(GrammarEntry(raw_response[n]))
    /\ validation.is_valid
    /\ Len(validation.result) = 2

\* a label line whose justification is empty or shorter than 3 characters
InvalidEntry(line, labelset) ==
    LET l == strip(line)
    IN  \/ IsLabelDashLine(line, labelset) /\ ~LongEnough(GrammarEntry(line))
        \/ /\ Len(l) >= 2
           /\ upper(l[1]) \in labelset
           /\ SkipSpaces(l, 2) = Len(l)
           /\ l[Len(l)] = "-"

\* C15: when the response is made of invalid entries (a label line with an
\* empty justification or one shorter than 3 characters) and of at least
\* expected_count fully valid lines, parse_and_validate drops the invalid
\* entries and accepts with the first expected_count fully valid lines:
\* later valid lines take the place of the dropped ones.
C15_CleanupWithFillIn ==
    LET labelset == allowed_labels_set(allowed_labels)
        valid == PlainValidLines(raw_response, labelset)
    IN  ( /\ Parsed
          /\ \A n \in 1..Len(raw_response) :
                \/ PlainValid(raw_response[n], labelset)
                \/ InvalidEntry(raw_response[n], labelset)
          /\ \E n \in 1..Len(raw_response) :
                InvalidEntry(raw_response[n], labelset)
          /\ Len(valid) >= expected_count ) =>
            validation = [is_valid |-> TRUE,
                          result |-> FirstN(EntriesOf(valid), expected_count)]

\* C16: when the response contains more than expected_count well-formed
\* lines (allowed label, justification of at least 3 characters),
\* parse_and_validate accepts with exactly the first expected_count of
\* them, in order, whatever the other lines are.
C16_OverGeneration ==
    LET valid == WellFormedLines(raw_response,
                                 allowed_labels_set(allowed_labels))
    IN  (Parsed /\ Len(valid) > expected_count) =>
            validation = [is_valid |-> TRUE,
                          result |-> FirstN(EntriesOf(valid), expected_count)]

\* parsed_results at the end of the first loop
parsed_results ==
    ParseLines(SplitLines(raw_response), <<>>, expected_count,
               allowed_labels_set(allowed_labels))

\* C17: every non-blank line matching ^<LABEL>\s*-\s*.+ (any letter case,
\* any whitespace around the dash, none included) is collected as the
\* candidate (upper-cased label, trimmed remainder) while fewer than
\* expected_count candidates are collected, and the other lines are
\* skipped: the candidates are the entries of the first expected_count
\* matching lines, and when these all pass the cleanup they are the result.
C17_GrammarCompleteness ==
    LET grammar == FirstN(GrammarEntries(raw_response,
                                         allowed_labels_set(allowed_labels)),
                          expected_count)
    IN  Parsed =>
            /\ parsed_results = grammar
            /\ ( /\ Len(grammar) = expected_count
                 /\ \A n \in 1..Len(grammar) : LongEnough(grammar[n]) ) =>
                   validation = [is_valid |-> TRUE, result |-> grammar]

\* the response is None or the empty string
NoResponse ==
    \/ raw_response = None
    \/ Len(raw_response) = 1 /\ raw_response[1] = <<>>

Rejected(msg) == ~validation.is_valid /\ validation.result = msg

\* C18: parse_and_validate returns a value for every input, valid or one
\* of the three rejections. A None or empty response gives the no-response
\* rejection whatever the labels are; otherwise an empty allowed_labels
\* gives the no-labels rejection; otherwise a response with fewer than
\* expected_count valid lines gives the count-mismatch rejection.
C18_RejectionsAreValues ==
    pc = "returned" =>
        /\ validation.is_valid \in BOOLEAN
        /\ ~validation.is_valid =>
              validation.result \in {NoResponseMsg, NoLabelsMsg, CountMismatchMsg}
        /\ NoResponse => Rejected(NoResponseMsg)
        /\ (~NoResponse /\ allowed_labels = <<>>) => Rejected(NoLabelsMsg)
        /\ ( /\ ~NoResponse
             /\ allowed_labels # <<>>
             /\ Len(WellFormedLines(raw_response,
                                    allowed_labels_set(allowed_labels)))
                    < expected_count ) => Rejected(CountMismatchMsg)

\* an empty response with an empty label list: the no-response rejection
C18_Witness ==
    /\ pc = "returned"
    /\ raw_response = << <<>> >>
    /\ allowed_labels = <<>>
    /\ Rejected(NoResponseMsg)

\* the line with its label, when it starts with one, written in upper case
UpperLabel(line) ==
    LET j == SkipSpaces(line, 1)
    IN  IF j <= Len(line) /\ line[j] \in LowerWords \cup MixedWords
        THEN [line EXCEPT ![j] = upper(@)]
        ELSE line

WithUpperLabels(raw) == [n \in 1..Len(raw) |-> UpperLabel(raw[n])]

\* C19: a response whose labels are written in lower, upper or mixed case
\* gets the verdict and the result of the same response with its labels in
\* upper case, and every label of a result is in upper case.
C19_CaseNormalization ==
    (pc = "returned" /\ raw_response # None) =>
        LET u == parse_and_validate(WithUpperLabels(raw_response),
                                    expected_count, allowed_labels)
        IN  /\ u.is_valid = validation.is_valid
            /\ validation.is_valid =>
                  /\ u.result = validation.result
                  /\ \A n \in 1..Len(validation.result) :
                        validation.result[n].label \in UpperWords
            /\ ~validation.is_valid => Rejected(u.result)

\* a lower-case and a mixed-case label accepted as NEGATIF and POSITIF
C19_Witness ==
    /\ Accepted
    /\ Len(raw_response) = 2
    /\ strip(raw_response[1]) # <<>> /\ strip(raw_response[1])[1] = "negatif"
    /\ strip(raw_response[2]) # <<>> /\ strip(raw_response[2])[1] = "Positif"
    /\ Len(validation.result) = 2
    /\ validation.result[1].label = "NEGATIF"
    /\ validation.result[2].label = "POSITIF"

\* C20: for batch_size >= 1 the batches get_data_batches returns, put end
\* to end, are the full_text values of exactly the currently unprocessed
\* rows (empty label or empty justification) in dataset order; every batch
\* is non-empty and has at most batch_size texts, only the last one may be
\* smaller, and the number of texts is get_unprocessed_data_count(); this
\* holds for every call, on the dataset as it is at the call.
C20_BatchPartition ==
    pc = "batched" =>
        /\ Flatten(batches) = TextsOfRows(EmptyRows(df))
        /\ \A b \in 1..Len(batches) :
              /\ Len(batches[b]) >= 1
              /\ Len(batches[b]) <= batch_size
              /\ b < Len(batches) => Len(batches[b]) = batch_size
        /\ Len(Flatten(batches)) = get_unprocessed_data_count(df)

\* C21: when the dataset has no unprocessed row at startup, the run ends
\* without creating or starting the client, without asking the data
\* handler for batches, without submitting a prompt and without starting a
\* metrics session.
C21_NothingToDoExit ==
    get_unprocessed_data_count(h.df0) = 0 =>
        /\ ~browser
        /\ pc \notin {"load_prompt", "start_session", "get_batches"} \cup LoopPcs
        /\ batches = <<>>
        /\ ~h.submitted
        /\ ~session.active /\ history = <<>>

\* C22: with the debug flag set at most one batch, the first of the
\* snapshot, is processed whatever the number of unprocessed rows: prompts
\* are submitted for that batch only and update_and_save_data is called at
\* most once in the run.
C22_DebugMode ==
    debug =>
        /\ Len(batches) <= 1
        /\ batches # <<>> =>
              batches[1] = get_data_batches(h.df0, batch_size)[1]
        /\ \A b \in BatchIds :
              /\ (h.per_batch[b].submits > 0 \/ h.per_batch[b].updates > 0)
                    => b = 1
              /\ h.per_batch[b].updates <= 1
        /\ pc \in LoopPcs => i <= 2

\* a debug run over three batches that applied the first and stopped
C22_Witness ==
    /\ debug
    /\ pc = "done"
    /\ Len(get_data_batches(h.df0, batch_size)) = 3
    /\ h.loop_completed
    /\ h.per_batch[1].updates = 1

\* =====================================================================
\* DataHandler: construction and the two saves
\* =====================================================================

\* rows of a file without the label column, without the justification
\* column, without both
NoLabelRows == { [justification |-> NaN, src |-> 0],
                 [justification |-> <<"o", "l", "d">>, src |-> 0] }
NoJustificationRows == { [label |-> NULL, src |-> 0],
                         [label |-> "NETRAL", src |-> 0] }
BareRow == [src |-> 0]

DatasetFiles ==
    [Rows -> {EmptyRow, OldRow}] \cup [Rows -> NoLabelRows]
        \cup [Rows -> NoJustificationRows] \cup {[r \in Rows |-> BareRow]}

\* input paths: in the data directory, in results/ itself, nowhere; a stem
\* that already looks like an output file; supported suffixes and another
LoadPaths ==
    { FilePath(dir, stem, suffix) :
        dir \in {"data", "results", "nowhere"},
        stem \in { <<"dataset">>, <<"dataset", "_labeled_", Timestamp>> },
        suffix \in {".xlsx", ".csv", ".txt"} }

LoadInit ==
    /\ pc = "start"
    /\ input_filepath \in LoadPaths
    /\ output_filepath = OutputPath(input_filepath, Timestamp)
    /\ disk \in DatasetFiles
    /\ output_file = IF output_filepath = input_filepath THEN disk ELSE <<>>
    /\ df = <<>>
    /\ batch_size = 1
    /\ allowed_labels = allowed_labels_list
    /\ total_rows = 0 /\ batches = <<>> /\ i = 1
    /\ validated_results = None /\ total_processed_rows = 0
    /\ raw_response = None /\ validation = Pending
    /\ MainIdle

\* data_handler.save_progress()
CallSaveProgress ==
    /\ pc \in HandlerPcs
    /\ \E saved \in BOOLEAN :
          /\ disk' = save_progress(df, saved).disk
          /\ output_file' = save_progress(df, saved).output_file
          /\ h' = [h EXCEPT !.disk_at_attempt = disk,
                            !.output_at_attempt = output_file,
                            !.write_ok = saved]
    /\ pc' = "saved"
    /\ UNCHANGED <<args, client_attempt, df, ledger_file, objects, failed_rows, metrics,
                   loop_vars, counters, propagating>>

\* data_handler.save_final_results()
CallSaveFinalResults ==
    /\ pc \in HandlerPcs
    /\ \E saved \in BOOLEAN :
          /\ disk' = save_final_results(df, saved).disk
          /\ output_file' = save_final_results(df, saved).output_file
          /\ h' = [h EXCEPT !.disk_at_attempt = disk,
                            !.output_at_attempt = output_file,
                            !.write_ok = saved]
    /\ pc' = "snapshot"
    /\ UNCHANGED <<args, client_attempt, df, ledger_file, objects, failed_rows, metrics,
                   loop_vars, counters, propagating>>

LoadNext ==
    \/ NewDataHandler
    \/ CallSaveProgress
    \/ CallSaveFinalResults

LoadSpec == LoadInit /\ [][LoadNext]_vars

C24_PersistenceErrorsNotFatal ==
    /\ h.fatal_at # "update"
    /\ (pc = "count_update" /\ h.save_failed_at = i) =>
          /\ df = update_data(h.df_at_attempt, validated_results,
                              total_processed_rows)
          /\ disk = h.disk_at_attempt
    /\ (/\ h.save_failed_at > 0 /\ pc = "done"
        /\ h.fatal_at = "no" /\ h.interrupted_at = "no") =>
          /\ h.loop_completed
          /\ \A b \in BatchIds : h.per_batch[b].ended # "no"
    /\ h.snapshot_failed =>
          /\ pc \in {"fin_metrics", "done"}
          /\ ~propagating \/ h.fatal_at # "no"
          /\ pc = "done" => ~session.active

\* the save of the first batch failed, the second batch was then submitted,
\* accepted and applied, and the final snapshot failed as well
C24_Witness ==
    /\ pc = "done"
    /\ h.save_failed_at = 1
    /\ Len(batches) >= 2
    /\ h.per_batch[2].submits > 0
    /\ h.per_batch[2].ended = "accepted"
    /\ \E r \in Rows : df[r].src = batches[2][1] /\ df[r] # h.df0[r]
    /\ h.snapshot_failed
    /\ h.loop_completed

\* C25: when the input file does not exist, or exists with an extension other
\* than .xlsx and .csv, DataHandler(...) raises FileNotFoundError,
\* respectively ValueError, and the run ends with no handler object, no
\* client, no metrics session, no prompt submitted, no failed row recorded
\* and no dataset file written.
C25_LoadErrorsAbort ==
    /\ (/\ input_filepath.dir \notin ExistingDirs
        /\ pc # "start" /\ h.interrupted_at # "start")
          => h.load_error = "FileNotFoundError"
    /\ (/\ input_filepath.dir \in ExistingDirs
        /\ input_filepath.suffix \notin {".xlsx", ".csv"}
        /\ pc # "start" /\ h.interrupted_at # "start")
          => h.load_error = "ValueError"
    /\ h.load_error \in {"FileNotFoundError", "ValueError"} =>
          /\ pc \in {"except_exception"} \cup FinalPcs
          /\ ~data_handler /\ ~failed_handler /\ ~browser
          /\ ~session.active /\ history = <<>>
          /\ ~h.submitted /\ batches = <<>>
          /\ failed_rows = <<>> /\ ledger_file = <<>>
          /\ disk = h.df0 /\ output_file = <<>>
          /\ h.snapshot_calls = 0

\* a run on a path that names no file, at its end
C25_Witness ==
    /\ pc = "done"
    /\ h.load_error = "FileNotFoundError"
    /\ input_filepath.suffix = ".xlsx"

\* the columns of the file that was loaded
FileColumns == UNION { DOMAIN h.disk_at_attempt[r] : r \in Rows }

\* C26: after a successful load the data frame has the label and the
\* justification column; a column the file lacked is null in every row and
\* every value the file had is unchanged; when a column was created
\* save_progress was called exactly once by the constructor (the file then
\* is the migrated data frame, or is unchanged when that write failed), and
\* when the file had both columns nothing was written.
C26_StructuralMigration ==
    (pc = "mk_failed" /\ data_handler) =>
        LET file == h.disk_at_attempt IN
        /\ Len(df) = Len(file)
        /\ \A r \in Rows :
              /\ DOMAIN df[r] = {"label", "justification", "src"}
              /\ \A col \in DOMAIN file[r] : df[r][col] = file[r][col]
              /\ "label" \notin DOMAIN file[r] => df[r].label = NULL
              /\ "justification" \notin DOMAIN file[r]
                    => df[r].justification = NaN
        /\ IF {"label", "justification"} \subseteq FileColumns
           THEN h.load_saves = 0 /\ disk = file
           ELSE /\ h.load_saves = 1
                /\ disk = IF h.write_ok THEN df ELSE file
        /\ output_file = h.output_at_attempt

\* a file without label column was loaded: the column was created, the
\* justifications of the file were kept and the result was written back
C26_Witness ==
    /\ pc = "mk_failed" /\ data_handler
    /\ "label" \notin FileColumns
    /\ \E r \in Rows : df[r].justification = <<"o", "l", "d">>
    /\ \A r \in Rows : df[r].label = NULL
    /\ h.load_saves = 1 /\ h.write_ok
    /\ disk = df

\* C27: in a run that created the failed-row handler, save_to_file is called
\* exactly once, in the finally block, after every add_failed_row call of the
\* run; when that write succeeds the ledger file holds all failures recorded
\* in the run, in the order recorded.
C27_LedgerFlushedOnce ==
    /\ h.flush_calls <= 1
    /\ h.flush_calls = 1 => pc \in {"fin_snapshot", "fin_metrics", "done"}
    /\ pc \in {"fin_snapshot", "fin_metrics", "done"}
          => h.flush_calls = IF failed_handler THEN 1 ELSE 0
    /\ h.flush_calls = 1 => h.added = h.added_at_flush
    /\ (h.flush_calls = 1 /\ h.flush_ok) =>
          /\ ledger_file = h.added
          /\ failed_rows = <<>>

\* a run that recorded the rows of an exhausted batch and was then
\* interrupted: the one flush wrote them all
C27_Witness ==
    /\ pc = "done"
    /\ h.flush_calls = 1 /\ h.flush_ok
    /\ h.added # <<>>
    /\ ledger_file = h.added
    /\ h.interrupted_at # "no"

\* =====================================================================
\* FailedRowHandler on its own: add_failed_row and save_to_file in any order
\* =====================================================================

MaxAdds == 3
MaxFlushes == 3

FailureReasons == {FailureReason, "Reason 1"}

LedgerInit ==
    /\ pc = "ledger"
    /\ failed_handler = TRUE
    /\ failed_rows = <<>> /\ ledger_file = <<>>
    /\ df = [r \in Rows |-> EmptyRow]
    /\ disk = df
    /\ batch_size = 1
    /\ allowed_labels = allowed_labels_list
    /\ input_filepath = FilePath("data", <<"dataset">>, ".xlsx")
    /\ output_filepath = OutputPath(input_filepath, Timestamp)
    /\ total_rows = 0 /\ batches = <<>> /\ i = 1
    /\ validated_results = None /\ total_processed_rows = 0
    /\ raw_response = None /\ validation = Pending
    /\ debug = FALSE
    /\ output_file = <<>>
    /\ data_handler = FALSE
    /\ browser = FALSE /\ metrics_tracker = FALSE
    /\ session = NoSession /\ history = <<>> /\ csv_export = <<>>
    /\ attempt = 0
    /\ total_failed_rows = 0 /\ batch_count = 0
    /\ k = 1 /\ propagating = FALSE /\ client_attempt = 0
    /\ h = [InitHistory EXCEPT !.df0 = df]

\* failed_handler.add_failed_row(original_text, invalid_label, justification,
\*                               reason)
CallAddFailedRow ==
    /\ pc \in {"ledger", "added", "flushed"}
    /\ Len(h.added) < MaxAdds
    /\ \E text \in Rows, reason \in FailureReasons :
          failed_rows' = add_failed_row(failed_rows, full_text(text), "N/A",
                                        "N/A", reason)
    /\ h' = [h EXCEPT !.added = Append(@, failed_rows'[Len(failed_rows')])]
    /\ pc' = "added"
    /\ UNCHANGED <<args, client_attempt, df, files, objects, metrics, loop_vars, counters,
                   propagating>>

\* failed_handler.save_to_file()
CallSaveToFile ==
    /\ pc \in {"ledger", "added", "flushed"}
    /\ h.flush_calls < MaxFlushes
    /\ \E written \in WriteOutcomes(failed_rows) :
          LET r == save_to_file(failed_rows, ledger_file, written)
          IN  /\ failed_rows' = r.failed_rows
              /\ ledger_file' = r.file
              /\ h' = FlushHistory(written)
    /\ pc' = "flushed"
    /\ UNCHANGED <<args, client_attempt, df, disk, output_file, objects, metrics, loop_vars,
                   counters, propagating>>

LedgerNext ==
    \/ CallAddFailedRow
    \/ CallSaveToFile

LedgerSpec == LedgerInit /\ [][LedgerNext]_vars

\* the failures recorded since the last flush that wrote the file, as they
\* were when save_to_file was last called
PendingAtFlush == SubSeq(h.added, h.flushed_before + 1, Len(h.added))

\* C28: a save_to_file call with failures pending that writes the file
\* leaves in it exactly the failures recorded since the previous successful
\* flush, in the order recorded and without the rows the file held before,
\* and empties the list; a call with nothing pending leaves the file, present
\* or absent, as it was.
C28_LedgerFlushContent ==
    pc = "flushed" =>
        /\ (PendingAtFlush # <<>> /\ h.flush_ok) =>
              /\ ledger_file = PendingAtFlush
              /\ failed_rows = <<>>
        /\ PendingAtFlush = <<>> =>
              /\ ledger_file = h.ledger_before
              /\ failed_rows = <<>>

\* a second successful flush: two different rows pending, the file held an
\* earlier row, which is gone afterwards
C28_Witness ==
    /\ pc = "flushed" /\ h.flush_ok
    /\ h.flushed_before = 1
    /\ h.ledger_before = SubSeq(h.added, 1, 1)
    /\ Len(PendingAtFlush) = 2
    /\ PendingAtFlush[1] # PendingAtFlush[2]
    /\ PendingAtFlush[1] # h.added[1]
    /\ ledger_file = PendingAtFlush

\* C29: the reason recorded with the rows of an exhausted batch is
\* determined by the rejection of its last attempt: batches whose last
\* attempt was rejected with different messages have different recorded
\* reasons.
C29_ReasonReflectsFinalRejection ==
    \A p, q \in h.rejections : p[1] # q[1] => p[2] # q[2]

\* C30: a run that started a metrics session leaves, on every exit path,
\* exactly one record in the JSON history and exactly one row in the CSV
\* export (none where that write failed), and never more than one; a run that
\* started none leaves none. After end_session the tracker has no session, and
\* without a session end_session records nothing and update_progress changes
\* nothing.
C30_OneMetricsRecordPerSession ==
    /\ Len(history) <= h.session_starts
    /\ Len(csv_export) <= h.session_starts
    /\ (pc = "done" /\ h.session_starts = 1) =>
          /\ ~session.active
          /\ h.end_calls >= 1
          /\ ~h.json_lost => Len(history) = 1
          /\ ~h.csv_lost => Len(csv_export) = 1
    /\ h.end_calls >= 1 => ~session.active
    /\ ~session.active =>
          /\ \A status \in {"completed", "failed", "interrupted"} :
                /\ end_session(session, history, status) = history
                /\ end_session(session, csv_export, status) = csv_export
          /\ update_progress(session, total_processed_rows + 1,
                             total_failed_rows + 1, batch_count + 1) = session

\* an interrupted run at its end: one record, of the interrupt, in both files
C30_Witness ==
    /\ pc = "done"
    /\ h.session_starts = 1
    /\ h.interrupted_at \in LoopPcs
    /\ Len(history) = 1 /\ history[1].status = "interrupted"
    /\ csv_export = history
    /\ history[1].processed_rows > 0

\* C31: after every batch of a run the counter total_processed_rows, which
\* is handed to the metrics tracker and used as the next write offset, equals
\* the number of dataset rows the run has labeled so far.
C31_ProcessedCounterTruthful ==
    pc = "batch_head" => total_processed_rows = Cardinality(LabeledByRun)

\* the rows with a non-null label in the data frame d
LabeledRows(d) == {r \in 1..Len(d) : d[r].label # NULL}

\* C32: an update_and_save_data call leaves every row whose label was
\* non-null when the call began exactly as it was, adds and removes no row,
\* changes nothing but label and justification of the rows it writes, and the
\* set of labeled rows never shrinks.
C32_LabeledRowsUntouched ==
    pc = "updated" =>
        LET before == h.df_at_attempt IN
        /\ Len(df) = Len(before)
        /\ \A r \in Rows :
              /\ before[r].label # NULL => df[r] = before[r]
              /\ DOMAIN df[r] = DOMAIN before[r]
        /\ LabeledRows(before) \subseteq LabeledRows(df)

\* a call that wrote a result next to a row with a blank label and a row
\* with a label but no justification, both of which it left alone
C32_Witness ==
    /\ pc = "updated"
    /\ \E r \in Rows : h.df_at_attempt[r] = BlankRow /\ df[r] = BlankRow
    /\ \E r \in Rows : h.df_at_attempt[r] = HalfRow /\ df[r] = HalfRow
    /\ \E r \in Rows : h.df_at_attempt[r].label = NULL /\ df[r].label # NULL

C34_StatusMatchesOutcome ==
    \A n \in 1..Len(history) :
        /\ history[n].status = "completed"
              => h.loop_completed /\ h.fatal_at = "no" /\ h.interrupted_at = "no"
        /\ h.interrupted_at # "no" => history[n].status = "interrupted"

\* C35: in the finally block a failure of close_session, of the ledger flush
\* or of the final snapshot raises nothing and stops none of the later
\* steps: the flush is called whenever the handler exists, the snapshot
\* whenever its guard holds, and the metrics session is ended.
C35_IndependentCleanupSteps ==
    /\ h.close_failed => pc \in {"fin_flush", "fin_snapshot", "fin_metrics", "done"}
    /\ pc \in {"fin_snapshot", "fin_metrics", "done"}
          => h.flush_calls = IF failed_handler THEN 1 ELSE 0
    /\ pc \in {"fin_metrics", "done"}
          => h.snapshot_calls = IF data_handler /\ total_processed_rows > 0
                                THEN 1 ELSE 0
    /\ pc = "done" => ~session.active
    /\ propagating => h.fatal_at # "no"

\* a run at its end in which closing the browser, the ledger write and the
\* snapshot write all failed, and all three steps were made
C35_Witness ==
    /\ pc = "done"
    /\ h.close_failed /\ h.close_calls = 1
    /\ h.flush_calls = 1 /\ ~h.flush_ok /\ failed_rows # <<>>
    /\ h.snapshot_calls = 1 /\ h.snapshot_failed
    /\ ~propagating

\* C36: a save_to_file call whose write fails raises nothing, leaves the
\* file as it was and the pending failures in the list, same rows in the same
\* order; the next flush that writes the file writes all of them, before the
\* failures recorded since.
C36_LedgerWriteFailureLosesNothing ==
    /\ ~propagating
    /\ (pc = "flushed" /\ ~h.flush_ok) =>
          /\ failed_rows = PendingAtFlush
          /\ failed_rows = h.unwritten
          /\ ledger_file = h.ledger_before
    /\ (pc = "flushed" /\ h.flush_ok /\ h.unwritten_before # <<>>) =>
          /\ Len(ledger_file) >= Len(h.unwritten_before)
          /\ SubSeq(ledger_file, 1, Len(h.unwritten_before))
                = h.unwritten_before

\* a flush failed with a row pending, another row was recorded, and the next
\* flush wrote both
C36_Witness ==
    /\ pc = "flushed" /\ h.flush_ok
    /\ Len(h.unwritten_before) = 1
    /\ Len(ledger_file) = 2
    /\ ledger_file[1] = h.unwritten_before[1]
    /\ ledger_file[2] # ledger_file[1]
    /\ failed_rows = <<>>

\* =====================================================================
\* get_raw_response_for_batch on its own, one pass of its loop at a time
\* =====================================================================

ClientInit ==
    /\ pc = "client_loop"
    /\ browser = TRUE
    /\ client_attempt = 0
    /\ raw_response = None
    /\ df = [r \in Rows |-> EmptyRow]
    /\ disk = df
    /\ batch_size = 1
    /\ allowed_labels = allowed_labels_list
    /\ input_filepath = FilePath("data", <<"dataset">>, ".xlsx")
    /\ output_filepath = OutputPath(input_filepath, Timestamp)
    /\ total_rows = 0 /\ batches = <<>> /\ i = 1
    /\ validated_results = None /\ total_processed_rows = 0
    /\ validation = Pending
    /\ debug = FALSE
    /\ output_file = <<>>
    /\ failed_rows = <<>> /\ ledger_file = <<>>
    /\ data_handler = FALSE /\ failed_handler = FALSE
    /\ metrics_tracker = FALSE
    /\ session = NoSession /\ history = <<>> /\ csv_export = <<>>
    /\ attempt = 0
    /\ total_failed_rows = 0 /\ batch_count = 0
    /\ k = 1 /\ propagating = FALSE
    /\ h = [InitHistory EXCEPT !.df0 = df]

\* lines 196-246: one pass of "for attempt in range(max_retries)". The
\* reload and the wait for the input box are inside the try: when either
\* raises, the pass ends in the except clause with no prompt sent. The
\* screenshot of the except clause is guarded, so the clause raises nothing.
ClientAttempt ==
    /\ pc = "client_loop"
    /\ client_attempt < max_retries
    /\ \E reloaded \in BOOLEAN, out \in Outcomes, text \in Responses(1) :
          LET n == reloads_before(client_attempt)
              sent == n = 0 \/ reloaded
              result == IF sent THEN out ELSE "exception"
          IN  /\ (n = 0 => reloaded)
              /\ h' = [h EXCEPT !.client_log =
                          Append(@, [reloads |-> n, sent |-> sent,
                                     out |-> result,
                                     text |-> IF result = "ok" THEN text
                                              ELSE None])]
              /\ IF attempt_returns(result)
                 THEN raw_response' = text /\ pc' = "client_returned"
                 ELSE UNCHANGED raw_response /\ pc' = "client_loop"
    /\ client_attempt' = client_attempt + 1
    /\ UNCHANGED <<args, df, files, objects, failed_rows, metrics, batches, i,
                   attempt, validation, validated_results, k, counters,
                   propagating>>

\* lines 248-249: the loop ran out, return None
ClientExhausted ==
    /\ pc = "client_loop"
    /\ client_attempt = max_retries
    /\ raw_response' = None
    /\ pc' = "client_returned"
    /\ UNCHANGED <<args, client_attempt, df, files, objects, failed_rows, metrics, batches, i,
                   attempt, validation, validated_results, k, counters,
                   propagating, h>>

ClientNext ==
    \/ ClientAttempt
    \/ ClientExhausted

ClientSpec == ClientInit /\ [][ClientNext]_vars

\* the attempts of the call that returned a text
OkAttempts == { a \in 1..Len(h.client_log) : h.client_log[a].out = "ok" }

\* the outcomes of the attempts made, as the run hands them to the call
OutcomesOfCall ==
    [a \in 1..max_retries |->
        IF a <= Len(h.client_log) THEN h.client_log[a].out ELSE "timeout"]

\* C37: get_raw_response_for_batch makes at most 3 attempts, reloads the
\* page exactly once before each attempt after the first and not before the
\* first, returns the text of the first attempt whose generation completed
\* with a non-error text extracted and makes no attempt after it, and
\* returns None, raising nothing, when all 3 attempts fail.
C37_ClientRetry ==
    /\ Len(h.client_log) = client_attempt /\ client_attempt <= 3
    /\ \A a \in 1..Len(h.client_log) :
          h.client_log[a].reloads = IF a = 1 THEN 0 ELSE 1
    /\ OkAttempts \subseteq {Len(h.client_log)}
    /\ OkAttempts # {} => pc = "client_returned"
    /\ ~propagating
    /\ pc = "client_returned" =>
          IF OkAttempts # {}
          THEN /\ raw_response = h.client_log[Len(h.client_log)].text
               /\ raw_response = get_raw_response_for_batch(OutcomesOfCall,
                                                            raw_response)
          ELSE /\ raw_response = None
               /\ Len(h.client_log) = 3
               /\ get_raw_response_for_batch(OutcomesOfCall, <<>>) = None

\* the call returned the text of its third attempt after a timeout and a
\* reload that raised
C37_Witness ==
    /\ pc = "client_returned"
    /\ Len(h.client_log) = 3
    /\ h.client_log[1].out = "timeout"
    /\ h.client_log[2].out = "exception" /\ ~h.client_log[2].sent
    /\ h.client_log[3].out = "ok"
    /\ raw_response = h.client_log[3].text
    /\ raw_response # None

\* all three attempts failed and the call returned None
C37_WitnessExhausted ==
    /\ pc = "client_returned"
    /\ Len(h.client_log) = 3
    /\ OkAttempts = {}
    /\ raw_response = None

\* =====================================================================
\* the run under the assumption that every call it makes returns
\* =====================================================================

\* main is one sequential thread: the statement it stands at is executed
\* and returns. Interrupt is left out: a KeyboardInterrupt need not come.
\* Validate is enabled exactly when pc = "validate" (the check-data write
\* succeeds or raises), so its weak fairness is written out with that.
Fairness ==
    /\ WF_vars(NewDataHandler) /\ WF_vars(NewFailedRowHandler)
    /\ WF_vars(NewAutomation) /\ WF_vars(CountRows) /\ WF_vars(LoadPrompt)
    /\ WF_vars(StartSession) /\ WF_vars(GetBatches) /\ WF_vars(BatchHead)
    /\ WF_vars(AttemptHead) /\ WF_vars(Submit)
    /\ ([]<>(pc # "validate") \/ []<><<Validate>>_vars)
    /\ WF_vars(ClearChatHistory) /\ WF_vars(AfterRetries)
    /\ WF_vars(update_and_save_data) /\ WF_vars(CountUpdate)
    /\ WF_vars(AddFailedRow) /\ WF_vars(FailedBatchDone)
    /\ WF_vars(ExceptKeyboardInterrupt) /\ WF_vars(ExceptException)
    /\ WF_vars(FinallyClose) /\ WF_vars(FinallyFlush)
    /\ WF_vars(FinallySnapshot) /\ WF_vars(FinallyMetrics)

FairSpec == Spec /\ Fairness

\* the submissions made over all batches
RECURSIVE SubmitsUpTo(_)
SubmitsUpTo(b) ==
    IF b = 0 THEN 0 ELSE h.per_batch[b].submits + SubmitsUpTo(b - 1)

TotalSubmits == SubmitsUpTo(Len(h.per_batch))

\* the batches as cut from the dataset the run started with
InitialSnapshot == debug_cut(get_data_batches(h.df0, batch_size), debug)

\* C38: every run whose calls all return ends at the end of finalization,
\* having visited no batch twice and, when the loop ran to its end, each
\* batch of the initial snapshot once, with at most Len(batches) *
\* MAX_RETRIES submissions in total.
C38_Termination ==
    <>( /\ pc = "done"
        /\ \A b \in BatchIds : h.per_batch[b].visits <= 1
        /\ \A b \in BatchIds : h.per_batch[b].submits <= MAX_RETRIES
        /\ TotalSubmits <= Len(batches) * MAX_RETRIES
        /\ h.loop_completed =>
              /\ batches = InitialSnapshot
              /\ Len(h.per_batch) = Len(batches)
              /\ \A b \in BatchIds : h.per_batch[b].visits = 1 )

\* a run over two batches, both rejected on every attempt, at the end of
\* finalization
C38_Witness ==
    /\ pc = "done"
    /\ h.loop_completed
    /\ Len(batches) = 2
    /\ TotalSubmits = 2 * MAX_RETRIES
    /\ \A b \in BatchIds : h.per_batch[b].visits = 1

====
